---------------------------- MODULE Spec2Model ----------------------------
(***************************************************************************)
(* A model of blobby (src/blobby.py): the byte cursor helpers, the loose   *)
(* object decoder, the tree entry parser, the pack entry header varint and *)
(* the pack file decoder.                                                  *)
(*                                                                         *)
(* Bytes are the integers 0..255 and a byte string is a sequence of them.  *)
(* A Python call that may raise is modelled by an operator returning a     *)
(* record whose field ok says whether it returned, and whose field err     *)
(* names the exception when it did not.                                    *)
(*                                                                         *)
(* Four specifications share the variables:                                *)
(*   SpecCursor  consume_bytes on a buffer and a size                      *)
(*   SpecLoose   read_git_object on a decompressed loose object buffer     *)
(*   SpecVarint  the pack entry header decoder on encoded (kind, size)     *)
(*   SpecPack    read_git_packed on a pack buffer                          *)
(***************************************************************************)
EXTENDS Integers, Sequences, FiniteSets

VARIABLES
    pc,     \* position of the running call
    buf,    \* the input buffer of the call
    arg,    \* the other inputs of the call (a size, or the encoded pair)
    data,   \* the local `data`: the bytes not yet consumed
    acc,    \* the local list being built (entries, packed_objs)
    hist,   \* history: the value of `data` at the start of each loop iteration
    res     \* the value returned, or the exception raised

vars == <<pc, buf, arg, data, acc, hist, res>>

(***************************************************************************)
(* Bounds of the model.                                                    *)
(***************************************************************************)
MaxLen == 3        \* SpecCursor: longest buffer given to consume_bytes
MaxTake == 5       \* SpecCursor: largest size given to consume_bytes
MaxBody == 2       \* SpecLoose: longest commit/blob body, in bytes
MaxEntries == 2    \* SpecLoose: most tree entry pieces in a tree body

(***************************************************************************)
(* Byte string helpers.                                                    *)
(***************************************************************************)
Rep(b, n) == [i \in 1..n |-> b]

Min(a, b) == IF a < b THEN a ELSE b

RECURSIVE SeqsUpTo(_, _)
SeqsUpTo(S, n) ==
    IF n = 0 THEN {<<>>}
    ELSE LET shorter == SeqsUpTo(S, n - 1)
         IN  shorter \cup {Append(s, x) : s \in shorter, x \in S}

RECURSIVE ConcatsUpTo(_, _)
ConcatsUpTo(S, n) ==
    IF n = 0 THEN {<<>>}
    ELSE LET shorter == ConcatsUpTo(S, n - 1)
         IN  shorter \cup {s \o x : s \in shorter, x \in S}

\* ASCII
SP == 32
NUL == 0
B_tree == <<116, 114, 101, 101>>
B_trees == <<116, 114, 101, 101, 115>>
B_commit == <<99, 111, 109, 109, 105, 116>>
B_blob == <<98, 108, 111, 98>>
B_blobby == <<98, 108, 111, 98, 98, 121>>
B_tag == <<116, 97, 103>>
B_blo == <<98, 108, 111>>
B_PACK == <<80, 65, 67, 75>>

(***************************************************************************)
(* consume_bytes: Python slicing, data[:size] and data[size:], for a size  *)
(* >= 0.  A slice never raises: past the end it is cut to what is there.   *)
(***************************************************************************)
SliceTo(d, size) == SubSeq(d, 1, Min(size, Len(d)))

SliceFrom(d, size) == SubSeq(d, size + 1, Len(d))

consume_bytes(d, size) == <<SliceTo(d, size), SliceFrom(d, size)>>

(***************************************************************************)
(* consume_bytes_to_sep: the bytes before the first sep and the bytes      *)
(* after it; raises when sep does not occur.                               *)
(***************************************************************************)
FirstIndex(d, sep) ==
    IF \E i \in 1..Len(d) : d[i] = sep
    THEN CHOOSE i \in 1..Len(d) : d[i] = sep /\ \A j \in 1..(i - 1) : d[j] # sep
    ELSE 0

consume_bytes_to_sep(d, sep) ==
    LET i == FirstIndex(d, sep)
    IN  IF i = 0
        THEN [ok |-> FALSE, err |-> "MissingSeparator", head |-> <<>>, rest |-> <<>>]
        ELSE [ok |-> TRUE, err |-> "", head |-> SubSeq(d, 1, i - 1),
              rest |-> SubSeq(d, i + 1, Len(d))]

read_content_size(d) == consume_bytes_to_sep(d, NUL)

(***************************************************************************)
(* SpecCursor: one call of consume_bytes.                                  *)
(***************************************************************************)
CursorBytes == {97, 98}

InitCursor ==
    /\ pc = "take"
    /\ buf \in SeqsUpTo(CursorBytes, MaxLen)
    /\ arg \in 0..MaxTake
    /\ data = <<>>
    /\ acc = <<>>
    /\ hist = <<>>
    /\ res = [ok |-> FALSE, err |-> "", val |-> <<>>]

Take ==
    /\ pc = "take"
    /\ pc' = "done"
    /\ res' = [ok |-> TRUE, err |-> "", val |-> consume_bytes(buf, arg)]
    /\ UNCHANGED <<buf, arg, data, acc, hist>>

NextCursor == Take

SpecCursor == InitCursor /\ [][NextCursor]_vars

(* C1: for every buffer buf and size n >= 0, consume_bytes returns the     *)
(* first n bytes and a remainder of length len(buf) - n when n <= len(buf),*)
(* and fails with OutOfBounds when n > len(buf).                           *)
C1_TakeFailsPastEnd ==
    pc = "done" =>
        IF arg <= Len(buf)
        THEN /\ res.ok
             /\ res.val[1] = SubSeq(buf, 1, arg)
             /\ Len(res.val[2]) = Len(buf) - arg
        ELSE /\ ~res.ok
             /\ res.err = "OutOfBounds"

(***************************************************************************)
(* bytes.decode(): UTF-8 to a sequence of code points; raises on a byte    *)
(* sequence that is not well-formed UTF-8.                                 *)
(***************************************************************************)
IsCont(b) == b >= 128 /\ b <= 191

utf8_len(b) ==
    IF b < 128 THEN 1
    ELSE IF b >= 194 /\ b <= 223 THEN 2
    ELSE IF b >= 224 /\ b <= 239 THEN 3
    ELSE IF b >= 240 /\ b <= 244 THEN 4
    ELSE 0

utf8_valid(c) ==
    /\ \A i \in 2..Len(c) : IsCont(c[i])
    /\ (c[1] = 224 => c[2] >= 160)
    /\ (c[1] = 237 => c[2] <= 159)
    /\ (c[1] = 240 => c[2] >= 144)
    /\ (c[1] = 244 => c[2] <= 143)

utf8_point(c) ==
    IF Len(c) = 1 THEN c[1]
    ELSE IF Len(c) = 2 THEN (c[1] - 192) * 64 + (c[2] - 128)
    ELSE IF Len(c) = 3 THEN (c[1] - 224) * 4096 + (c[2] - 128) * 64 + (c[3] - 128)
    ELSE (c[1] - 240) * 262144 + (c[2] - 128) * 4096 + (c[3] - 128) * 64 + (c[4] - 128)

\* the bytes that start a character: UTF-8 marks every other byte 10xxxxxx
utf8_leads(bs) == {i \in 1..Len(bs) : ~IsCont(bs[i])}

utf8_chunk(bs, i) == SubSeq(bs, i, i + utf8_len(bs[i]) - 1)

utf8_well_formed(bs) ==
    /\ \A i \in utf8_leads(bs) :
          /\ utf8_len(bs[i]) > 0
          /\ i + utf8_len(bs[i]) - 1 <= Len(bs)
          /\ utf8_valid(utf8_chunk(bs, i))
    /\ \A j \in 1..Len(bs) :
          IsCont(bs[j]) =>
             \E i \in utf8_leads(bs) : i < j /\ j <= i + utf8_len(bs[i]) - 1

utf8_decode(bs) ==
    LET leads == utf8_leads(bs)
        nth(k) == CHOOSE p \in leads : Cardinality({q \in leads : q <= p}) = k
    IN  [k \in 1..Cardinality(leads) |-> utf8_point(utf8_chunk(bs, nth(k)))]

decode(bs) ==
    IF utf8_well_formed(bs)
    THEN [ok |-> TRUE, err |-> "", text |-> utf8_decode(bs)]
    ELSE [ok |-> FALSE, err |-> "UnicodeDecodeError", text |-> <<>>]

(***************************************************************************)
(* read_entry: {mode} {filename}{null byte}{sha1 in binary}.               *)
(***************************************************************************)
HashLen == 20

StartsWith(d, p) == Len(d) >= Len(p) /\ SubSeq(d, 1, Len(p)) = p

NoEntry == [mode |-> <<>>, filename |-> <<>>, sha1 |-> <<>>]

read_entry(d) ==
    LET m == consume_bytes_to_sep(d, SP)
        f == consume_bytes_to_sep(m.rest, NUL)
        h == consume_bytes(f.rest, HashLen)
    IN  IF ~m.ok THEN [ok |-> FALSE, err |-> m.err, entry |-> NoEntry, data |-> <<>>]
        ELSE IF ~f.ok THEN [ok |-> FALSE, err |-> f.err, entry |-> NoEntry, data |-> <<>>]
        ELSE [ok |-> TRUE, err |-> "",
              entry |-> [mode |-> m.head, filename |-> f.head, sha1 |-> h[1]],
              data |-> h[2]]

(***************************************************************************)
(* read_git_object, from the decompressed bytes on.  The kind is decided   *)
(* by startswith, tree first, then commit, then blob.                      *)
(***************************************************************************)
gtype_of(d) ==
    IF StartsWith(d, B_tree) THEN "tree"
    ELSE IF StartsWith(d, B_commit) THEN "commit"
    ELSE IF StartsWith(d, B_blob) THEN "blob"
    ELSE "unknown"

Raised(e) == [ok |-> FALSE, err |-> e, gtype |-> "", size |-> <<>>, content |-> <<>>]

git_object(g, s, c) == [ok |-> TRUE, err |-> "", gtype |-> g, size |-> s, content |-> c]

\* lines 54-56, 63-74: the dispatch, the header, and for a commit or a blob
\* the whole call
ReadObjectHeader ==
    /\ pc = "object"
    /\ LET g == gtype_of(buf)
           w == consume_bytes_to_sep(buf, SP)
           s == read_content_size(w.rest)
           t == decode(s.rest)
       IN  IF g = "unknown"
           THEN pc' = "error" /\ res' = Raised("UnknownObjectKind") /\ data' = data
           ELSE IF ~w.ok
           THEN pc' = "error" /\ res' = Raised(w.err) /\ data' = data
           ELSE IF ~s.ok
           THEN pc' = "error" /\ res' = Raised(s.err) /\ data' = data
           ELSE IF g = "tree"
           THEN pc' = "entries" /\ res' = git_object("tree", s.head, <<>>)
                /\ data' = s.rest
           ELSE IF ~t.ok
           THEN pc' = "error" /\ res' = Raised(t.err) /\ data' = data
           ELSE pc' = "done" /\ res' = git_object(g, s.head, t.text) /\ data' = data
    /\ UNCHANGED <<buf, arg, acc, hist>>

\* lines 58-60: one iteration of the entry loop
ReadTreeEntry ==
    /\ pc = "entries"
    /\ Len(data) > 0
    /\ LET e == read_entry(data)
       IN  IF e.ok
           THEN /\ acc' = Append(acc, e.entry)
                /\ data' = e.data
                /\ UNCHANGED <<pc, res>>
           ELSE /\ pc' = "error"
                /\ res' = Raised(e.err)
                /\ UNCHANGED <<acc, data>>
    /\ hist' = Append(hist, data)
    /\ UNCHANGED <<buf, arg>>

\* line 61
ReturnTree ==
    /\ pc = "entries"
    /\ Len(data) = 0
    /\ pc' = "done"
    /\ res' = git_object("tree", res.size, acc)
    /\ UNCHANGED <<buf, arg, data, acc, hist>>

(***************************************************************************)
(* The loose object buffers of SpecLoose: a leading word, a space or none, *)
(* a size token, a null byte or none, and a body that is text bytes or     *)
(* tree entry pieces, some of them cut short.                              *)
(***************************************************************************)
Words == {B_tree, B_trees, B_commit, B_blob, B_blobby, B_tag, B_blo}
SizeTokens == {<<53>>, <<48, 49, 50>>, <<>>, <<120>>}
TextBytes == {104, 195, 169, 255}
Hash20a == Rep(170, HashLen)
Hash20b == Rep(32, HashLen)
Hash5 == Rep(187, 5)
Mode644 == <<49, 48, 48, 54, 52, 52>>
Mode40000 == <<52, 48, 48, 48, 48>>
EntryPieces ==
    { Mode644 \o <<SP, 97, NUL>> \o Hash20a,
      Mode40000 \o <<SP, 100, NUL>> \o Hash20b,
      Mode644 \o <<SP, 98, NUL>> \o Hash5,
      Mode644 \o <<SP, 99>>,
      Mode40000 }
Bodies == SeqsUpTo(TextBytes, MaxBody) \cup ConcatsUpTo(EntryPieces, MaxEntries)
LooseBuffers ==
    { w \o s1 \o z \o s2 \o b :
        w \in Words, s1 \in {<<SP>>, <<>>}, z \in SizeTokens,
        s2 \in {<<NUL>>, <<>>}, b \in Bodies }

InitLoose ==
    /\ pc = "object"
    /\ buf \in LooseBuffers
    /\ arg = 0
    /\ data = <<>>
    /\ acc = <<>>
    /\ hist = <<>>
    /\ res = Raised("")

NextLoose == ReadObjectHeader \/ ReadTreeEntry \/ ReturnTree

SpecLoose == InitLoose /\ [][NextLoose]_vars

(***************************************************************************)
(* What the claims about read_git_object say of a buffer.                  *)
(***************************************************************************)
HasSpace(d) == FirstIndex(d, SP) > 0

LeadingWord(d) == SubSeq(d, 1, FirstIndex(d, SP) - 1)

AfterWord(d) == SubSeq(d, FirstIndex(d, SP) + 1, Len(d))

KnownWords == {B_commit, B_tree, B_blob}

WordName(w) ==
    IF w = B_commit THEN "commit" ELSE IF w = B_tree THEN "tree"
    ELSE IF w = B_blob THEN "blob" ELSE "unknown"

Finished == pc \in {"done", "error"}

(* C5: read_git_object returns a GitObject only if the token before the    *)
(* first space is exactly commit, tree or blob; for any other leading word *)
(* (trees, blobby, ...) decoding fails (with UnknownObjectKind; the        *)
(* formula asks only that it fails).                                       *)
C5_OnlyExactKindWords ==
    /\ pc = "done" => HasSpace(buf) /\ LeadingWord(buf) \in KnownWords
    /\ (Finished /\ HasSpace(buf) /\ LeadingWord(buf) \notin KnownWords)
          => pc = "error"

\* the bytes left after the name's null terminator of the entry at the head of d,
\* or -1 when d has no mode or no name terminator
LeftForHash(d) ==
    LET sp == FirstIndex(d, SP)
        nul == FirstIndex(SubSeq(d, sp + 1, Len(d)), NUL)
    IN  IF sp = 0 \/ nul = 0 THEN -1 ELSE Len(d) - sp - nul

(* C7: every TreeEntry of a tree returned by the loose decoder has a hash  *)
(* of exactly 20 bytes: when fewer than 20 bytes remain after an entry     *)
(* name's null terminator, read_entry fails with OutOfBounds.              *)
C7_TreeHashIs20Bytes ==
    /\ (pc = "done" /\ res.gtype = "tree")
          => \A i \in 1..Len(res.content) : Len(res.content[i].sha1) = HashLen
    /\ \A i \in 1..Len(hist) :
          (LeftForHash(hist[i]) >= 0 /\ LeftForHash(hist[i]) < HashLen)
             => (pc = "error" /\ res.err = "OutOfBounds" /\ i = Len(hist))

IsDigits(ds) == Len(ds) > 0 /\ \A i \in 1..Len(ds) : ds[i] >= 48 /\ ds[i] <= 57

RECURSIVE DigitsValue(_)
DigitsValue(ds) ==
    IF ds = <<>> THEN 0
    ELSE 10 * DigitsValue(SubSeq(ds, 1, Len(ds) - 1)) + (ds[Len(ds)] - 48)

SizeToken(d) == SubSeq(AfterWord(d), 1, FirstIndex(AfterWord(d), NUL) - 1)

Body(d) == SubSeq(AfterWord(d), FirstIndex(AfterWord(d), NUL) + 1, Len(AfterWord(d)))

\* <kind> <digits>\0<body> with kind commit or blob
TextObjectForm(d) ==
    /\ HasSpace(d)
    /\ LeadingWord(d) \in {B_commit, B_blob}
    /\ FirstIndex(AfterWord(d), NUL) > 0
    /\ IsDigits(SizeToken(d))

(* C8: for every buffer <kind> <digits>\0<body> with kind commit or blob,  *)
(* read_git_object returns a GitObject of that kind whose declared_size is *)
(* the integer written by <digits> and whose content is the whole body     *)
(* decoded as text, also when the size differs from the body length.       *)
C8_TextObjectDecodes ==
    (Finished /\ TextObjectForm(buf)) =>
        /\ pc = "done"
        /\ res.ok
        /\ res.gtype = WordName(LeadingWord(buf))
        /\ IsDigits(res.size)
        /\ DigitsValue(res.size) = DigitsValue(SizeToken(buf))
        /\ res.content = decode(Body(buf)).text

(***************************************************************************)
(* Bit operations on non-negative integers.  Python's integers are         *)
(* unbounded; the model's inputs keep every value below 2^31, so 32 bits   *)
(* hold every operand.                                                     *)
(***************************************************************************)
Pow2(n) == 2 ^ n

\* a and b below 2^w, halved until one bit is left
RECURSIVE BitAndW(_, _, _)
BitAndW(a, b, w) ==
    IF a = 0 \/ b = 0 THEN 0
    ELSE IF w = 1 THEN 1
    ELSE LET h == w \div 2
         IN  BitAndW(a % Pow2(h), b % Pow2(h), h)
               + Pow2(h) * BitAndW(a \div Pow2(h), b \div Pow2(h), w - h)

RECURSIVE BitOrW(_, _, _)
BitOrW(a, b, w) ==
    IF a = 0 THEN b
    ELSE IF b = 0 THEN a
    ELSE IF w = 1 THEN 1
    ELSE LET h == w \div 2
         IN  BitOrW(a % Pow2(h), b % Pow2(h), h)
               + Pow2(h) * BitOrW(a \div Pow2(h), b \div Pow2(h), w - h)

WordBits == 32     \* bits the bit operations look at; every operand is below 2^31

BitAnd(a, b) == BitAndW(a, b, WordBits)

BitOr(a, b) == BitOrW(a, b, WordBits)


Shl(a, n) == a * Pow2(n)

Shr(a, n) == a \div Pow2(n)

RECURSIVE int_from_bytes(_)
int_from_bytes(bs) ==
    IF bs = <<>> THEN 0
    ELSE 256 * int_from_bytes(SubSeq(bs, 1, Len(bs) - 1)) + bs[Len(bs)]

(***************************************************************************)
(* The header of a packed object entry (lines 104-116): the kind in bits   *)
(* 4-6 of the first byte, the size in its low 4 bits and then in 7-bit     *)
(* groups while the top bit says another byte follows.  Indexing the empty *)
(* byte string that consume_bytes returns at the end of the data raises    *)
(* IndexError.                                                             *)
(***************************************************************************)
SizeShiftBug(k) == 4 + 7 * k

SizeShift(k) == 11 + 7 * k

NoHeader(e) == [ok |-> FALSE, err |-> e, obj_type |-> 0, obj_size |-> 0, data |-> <<>>]

RECURSIVE size_loop(_, _, _, _, _)
size_loop(last, d, type, size, k) ==
    IF BitAnd(last, 128) = 0
    THEN [ok |-> TRUE, err |-> "", obj_type |-> type, obj_size |-> size, data |-> d]
    ELSE LET c == consume_bytes(d, 1)
         IN  IF c[1] = <<>> THEN NoHeader("IndexError")
             ELSE size_loop(c[1][1], c[2], type,
                            BitOr(size, Shl(BitAnd(c[1][1], 127), SizeShift(k))),
                            k + 1)

read_size_type(d) ==
    LET c0 == consume_bytes(d, 1)
        b0 == c0[1][1]
        type == Shr(BitAnd(b0, 112), 4)
        size0 == BitAnd(b0, 15)
        c1 == consume_bytes(c0[2], 1)
        b1 == c1[1][1]
    IN  IF c0[1] = <<>> THEN NoHeader("IndexError")
        ELSE IF BitAnd(b0, 128) = 0
        THEN [ok |-> TRUE, err |-> "", obj_type |-> type, obj_size |-> size0,
              data |-> c0[2]]
        ELSE IF c1[1] = <<>> THEN NoHeader("IndexError")
        ELSE size_loop(b1, c1[2], type, BitOr(size0, Shl(BitAnd(b1, 127), 4)), 0)

(***************************************************************************)
(* SpecVarint: the header decoder on the encoding of a kind and a size,    *)
(* followed by other bytes.  The encoding is the pack format's: the low 4  *)
(* bits of the size in the first byte, then 7 bits a byte, low bits first, *)
(* the top bit set on every byte but the last.                             *)
(***************************************************************************)
MaxSize == 40      \* SpecVarint: every size from 0 to MaxSize is encoded

RECURSIVE encode_groups(_)
encode_groups(v) ==
    IF v < 128 THEN <<v>>
    ELSE <<128 + (v % 128)>> \o encode_groups(v \div 128)

encode_header(kind, v) ==
    IF v < 16 THEN <<16 * kind + v>>
    ELSE <<128 + 16 * kind + (v % 16)>> \o encode_groups(v \div 16)

obj_types == {1, 2, 3, 4, 6, 7}

OBJ_OFS_DELTA == 6
OBJ_REF_DELTA == 7

Sizes == (0..MaxSize) \cup {127, 128, 2047, 2048, 262143, 262144, 33554431,
                            33554432, 2147483647}

Trailers == {<<>>, <<0>>, <<145, 1>>}

InitVarint ==
    /\ pc = "header"
    /\ arg \in [kind : obj_types, size : Sizes, trailer : Trailers]
    /\ buf = encode_header(arg.kind, arg.size) \o arg.trailer
    /\ data = <<>>
    /\ acc = <<>>
    /\ hist = <<>>
    /\ res = NoHeader("")

DecodeHeader ==
    /\ pc = "header"
    /\ pc' = "done"
    /\ res' = read_size_type(buf)
    /\ UNCHANGED <<buf, arg, data, acc, hist>>

NextVarint == DecodeHeader

SpecVarint == InitVarint /\ [][NextVarint]_vars

(* C3: decoding the encoding of (kind, v) with the header decoder of       *)
(* read_packed_object_entry returns the same kind and declared_size = v,   *)
(* and consumes exactly the bytes the encoder produced.                    *)
C3_SizeVarintRoundTrip ==
    pc = "done" =>
        /\ res.ok
        /\ res.obj_type = arg.kind
        /\ res.obj_size = arg.size
        /\ res.data = arg.trailer

C3_Witness ==
    /\ pc = "done"
    /\ arg.size = 2048
    /\ Len(buf) = 3 + Len(arg.trailer)
    /\ res.obj_size = 2048

(***************************************************************************)
(* zlib.decompressobj().decompress(data) and its unused_data, on a stand-in*)
(* for the zlib stream format that keeps what the decoder relies on: a     *)
(* stream marks its own end; the bytes after the end are unused_data; a    *)
(* stream cut short yields the output so far, no error and no unused_data  *)
(* (empty data yields empty output); bytes that are no stream raise.       *)
(* A stream is ZMAGIC, output bytes, ZEND; ZBAD inside a stream is corrupt.*)
(***************************************************************************)
ZMAGIC == 120
ZEND == 0
ZBAD == 127

inflate_body(d) ==
    LET e == FirstIndex(d, ZEND)
        b == FirstIndex(d, ZBAD)
    IN  IF b > 0 /\ (e = 0 \/ b < e)
        THEN [ok |-> FALSE, err |-> "CorruptStream", out |-> <<>>, unused |-> <<>>]
        ELSE IF e = 0
        THEN [ok |-> TRUE, err |-> "", out |-> d, unused |-> <<>>]
        ELSE [ok |-> TRUE, err |-> "", out |-> SubSeq(d, 1, e - 1),
              unused |-> SubSeq(d, e + 1, Len(d))]

decompress(d) ==
    IF d = <<>> THEN [ok |-> TRUE, err |-> "", out |-> <<>>, unused |-> <<>>]
    ELSE IF d[1] # ZMAGIC THEN [ok |-> FALSE, err |-> "CorruptStream", out |-> <<>>,
                                unused |-> <<>>]
    ELSE inflate_body(Tail(d))

(***************************************************************************)
(* The OFS_DELTA base offset (lines 122-130): 7 bits a byte while the top  *)
(* bit is set, then negated.                                               *)
(***************************************************************************)
RECURSIVE offset_loop(_, _, _, _)
offset_loop(last, d, offset, k) ==
    IF BitAnd(last, 128) = 0
    THEN [ok |-> TRUE, err |-> "", offset |-> 0 - offset, data |-> d]
    ELSE LET c == consume_bytes(d, 1)
         IN  IF c[1] = <<>>
             THEN [ok |-> FALSE, err |-> "IndexError", offset |-> 0, data |-> <<>>]
             ELSE offset_loop(c[1][1], c[2],
                              BitOr(offset, Shl(BitAnd(c[1][1], 127), 7 * k)), k + 1)

read_offset(d) == offset_loop(128, d, 0, 0)

(***************************************************************************)
(* read_packed_object_entry (lines 95-153).                                *)
(***************************************************************************)
NoObject(e) ==
    [ok |-> FALSE, err |-> e, obj_type |-> 0, obj_size |-> 0, obj |-> <<>>,
     data |-> <<>>]

Object(t, s, o, d) ==
    [ok |-> TRUE, err |-> "", obj_type |-> t, obj_size |-> s, obj |-> o, data |-> d]

SizeMatchesBug(obj, size) == TRUE

SizeMatches(obj, size) == Len(obj) = size

IsWholeKind(t) == t \in {1, 2, 3, 4}

read_packed_object_entry(d) ==
    LET h == read_size_type(d)
        o == read_offset(h.data)
        zo == decompress(o.data)
        c == consume_bytes(h.data, HashLen)
        zr == decompress(c[2])
        zw == decompress(h.data)
    IN  IF ~h.ok THEN NoObject(h.err)
        ELSE IF h.obj_type = OBJ_OFS_DELTA
        THEN IF ~o.ok THEN NoObject(o.err)
             ELSE IF ~zo.ok THEN NoObject(zo.err)
             ELSE Object(h.obj_type, h.obj_size, zo.out, zo.unused)
        ELSE IF h.obj_type = OBJ_REF_DELTA
        THEN IF ~zr.ok THEN NoObject(zr.err)
             ELSE Object(h.obj_type, h.obj_size, c[1] \o zr.out, zr.unused)
        ELSE IF IsWholeKind(h.obj_type)
        THEN IF ~zw.ok THEN NoObject(zw.err)
             ELSE IF ~SizeMatches(zw.out, h.obj_size) THEN NoObject("SizeMismatch")
             ELSE Object(h.obj_type, h.obj_size, zw.out, zw.unused)
        ELSE NoObject("UnknownPackedKind")

(***************************************************************************)
(* read_git_packed (lines 162-185), from the bytes of the file on.         *)
(***************************************************************************)
PackVersion == 2

NoPack(e) == [ok |-> FALSE, err |-> e, version |-> <<>>, num_objs |-> <<>>, objs |-> <<>>]

git_packed(v, n, o) == [ok |-> TRUE, err |-> "", version |-> v, num_objs |-> n, objs |-> o]

git_packed_object(t, s, r, c) == [ptype |-> t, size |-> s, real_size |-> r, content |-> c]

\* lines 165-178: the marker, the version, the object count
ReadPackHeader ==
    /\ pc = "pack"
    /\ LET m == consume_bytes(buf, 4)
           v == consume_bytes(m[2], 4)
           n == consume_bytes(v[2], 4)
       IN  IF ~StartsWith(buf, B_PACK)
           THEN pc' = "error" /\ res' = NoPack("NotAPackFile") /\ data' = data
           ELSE IF int_from_bytes(v[1]) # PackVersion
           THEN pc' = "error" /\ res' = NoPack("UnsupportedVersion") /\ data' = data
           ELSE pc' = "loop" /\ res' = git_packed(v[1], n[1], <<>>) /\ data' = n[2]
    /\ UNCHANGED <<buf, arg, acc, hist>>

\* lines 179-183: one iteration of the entry loop
ReadPackedEntry ==
    /\ pc = "loop"
    /\ data # <<>>
    /\ LET e == read_packed_object_entry(data)
       IN  IF e.ok
           THEN /\ acc' = Append(acc, git_packed_object(e.obj_type, e.obj_size,
                                                       Len(data) - Len(e.data), e.obj))
                /\ data' = e.data
                /\ UNCHANGED <<pc, res>>
           ELSE /\ pc' = "error"
                /\ res' = NoPack(e.err)
                /\ UNCHANGED <<acc, data>>
    /\ hist' = Append(hist, data)
    /\ UNCHANGED <<buf, arg>>

\* line 185
ReturnPack ==
    /\ pc = "loop"
    /\ data = <<>>
    /\ pc' = "done"
    /\ res' = git_packed(res.version, res.num_objs, acc)
    /\ UNCHANGED <<buf, arg, data, acc, hist>>

(***************************************************************************)
(* The pack buffers of SpecPack: a header, whole or cut short or wrong,    *)
(* followed by up to MaxSegs fragments: entry headers of each kind, an     *)
(* offset, base hashes whole and cut short, and streams that are complete, *)
(* cut short or corrupt.  Fragments are joined freely, so entries also     *)
(* start in the middle of what was written as something else.  A buffer    *)
(* may end in an entry header or an offset that announces another byte.    *)
(* No buffer holds more than two bytes in a row with the top bit set, so   *)
(* every size and offset stays below 2^31.                                 *)
(***************************************************************************)
MaxSegs == 3       \* SpecPack: most fragments after a whole header

HashBytes20 == Rep(43, HashLen)
HashBytes5 == Rep(43, 5)

Frags ==
    { <<50>>,                      \* blob, size 2
      <<16>>,                      \* commit, size 0
      <<178, 1>>,                  \* blob, size 18, in two bytes
      <<162, 128, 1>>,             \* tree, size 2050, in three bytes
      <<96, 129, 1>>,              \* ofs delta, size 0, offset in two bytes
      <<112>> \o HashBytes20,      \* ref delta, size 0, base hash
      <<113>> \o HashBytes5,       \* ref delta, size 1, base hash cut short
      <<80>>,                      \* kind 5: no such kind
      <<ZMAGIC, 104, 105, ZEND>>,  \* a stream of two bytes
      <<ZMAGIC, ZEND>>,            \* a stream of no bytes
      <<ZMAGIC, 104>>,             \* a stream cut short
      <<ZMAGIC, ZBAD>> }           \* a corrupt stream

WholeHeader == B_PACK \o <<0, 0, 0, 2>> \o <<0, 0, 0, 1>>

OtherHeaders ==
    { B_PACK \o <<0, 0, 0, 1>> \o <<0, 0, 0, 1>>,    \* version 1
      <<80, 65, 67, 88>> \o <<0, 0, 0, 2>> \o <<0, 0, 0, 1>>,    \* not PACK
      <<80, 65, 67>>,
      <<>>,
      B_PACK,
      B_PACK \o <<2>>,
      B_PACK \o <<0, 0, 0, 2>>,
      B_PACK \o <<0, 0, 0, 2>> \o <<0, 0, 0>> }

Enders ==
    { <<>>,
      <<146>>,                     \* commit, another size byte to follow
      <<96, 129>> }                \* ofs delta, another offset byte to follow

PackBuffers ==
    {WholeHeader \o t \o e : t \in ConcatsUpTo(Frags, MaxSegs), e \in Enders}
        \cup {h \o t : h \in OtherHeaders, t \in ConcatsUpTo(Frags, 1)}

InitPack ==
    /\ pc = "pack"
    /\ buf \in PackBuffers
    /\ arg = 0
    /\ data = <<>>
    /\ acc = <<>>
    /\ hist = <<>>
    /\ res = NoPack("")

NextPack == ReadPackHeader \/ ReadPackedEntry \/ ReturnPack

SpecPack == InitPack /\ [][NextPack]_vars

(***************************************************************************)
(* What the claims about the pack decoder say.  hist[i] is the data the    *)
(* i-th call of read_packed_object_entry was given; acc[i] is the object   *)
(* it returned, when it returned.                                          *)
(***************************************************************************)
RECURSIVE SumRealSize(_)
SumRealSize(objs) ==
    IF objs = <<>> THEN 0
    ELSE objs[Len(objs)].real_size + SumRealSize(SubSeq(objs, 1, Len(objs) - 1))

PackHeaderLen == 12

(* C2: for a whole-object packed entry (commit, tree, blob, tag), decoding *)
(* fails with SizeMismatch and produces no PackedObject when the length of *)
(* the decompressed body differs from the size declared in the entry       *)
(* header; when they are equal it succeeds with len(content) =             *)
(* declared_size.                                                          *)
C2_WholeObjectSizeChecked ==
    /\ \A i \in 1..Len(acc) :
          acc[i].ptype \in {1, 2, 3, 4} => Len(acc[i].content) = acc[i].size
    /\ \A i \in 1..Len(hist) :
          LET h == read_size_type(hist[i])
              z == decompress(h.data)
          IN  (h.ok /\ h.obj_type \in {1, 2, 3, 4} /\ z.ok) =>
                 IF Len(z.out) # h.obj_size
                 THEN /\ pc = "error"
                      /\ res.err = "SizeMismatch"
                      /\ i = Len(hist)
                      /\ Len(acc) = i - 1
                 ELSE /\ Len(acc) >= i
                      /\ acc[i].ptype = h.obj_type
                      /\ acc[i].size = h.obj_size
                      /\ acc[i].content = z.out

\* a blob of declared size 2 was read with its two bytes, and the entry after
\* it failed the size check
C2_Witness ==
    /\ pc = "error"
    /\ res.err = "SizeMismatch"
    /\ Len(acc) = 1
    /\ acc[1].ptype = 3
    /\ acc[1].size = 2
    /\ acc[1].content = <<104, 105>>
    /\ Len(hist) = 2

(* C4: no delta resolution.  The content of a RefDelta entry is exactly    *)
(* the 20 bytes following the entry header followed by the decompressed    *)
(* delta bytes; the content of an OfsDelta entry is exactly the            *)
(* decompressed delta bytes after the offset bytes; the declared size is   *)
(* not compared with the content length.                                   *)
C4_DeltaContentIsRaw ==
    \A i \in 1..Len(acc) :
        LET h == read_size_type(hist[i])
            o == read_offset(h.data)
        IN  /\ acc[i].ptype = OBJ_REF_DELTA =>
                 /\ Len(h.data) >= HashLen
                 /\ Len(acc[i].content) >= HashLen
                 /\ SubSeq(acc[i].content, 1, HashLen) = SubSeq(h.data, 1, HashLen)
                 /\ SubSeq(acc[i].content, HashLen + 1, Len(acc[i].content))
                       = decompress(SubSeq(h.data, HashLen + 1, Len(h.data))).out
            /\ acc[i].ptype = OBJ_OFS_DELTA =>
                 acc[i].content = decompress(o.data).out

(* C6: read_git_packed returns a PackFile only if the first 4 bytes are    *)
(* PACK and the next 4 bytes, big-endian, equal 2: other first bytes fail  *)
(* with NotAPackFile, another 4-byte version fails with                    *)
(* UnsupportedVersion, and a buffer too short to hold the version and the  *)
(* object count never yields a PackFile.                                   *)
C6_PackHeaderChecked ==
    /\ pc = "done" =>
          /\ Len(buf) >= PackHeaderLen
          /\ SubSeq(buf, 1, 4) = B_PACK
          /\ int_from_bytes(SubSeq(buf, 5, 8)) = 2
    /\ (Finished /\ ~StartsWith(buf, B_PACK))
          => (pc = "error" /\ res.err = "NotAPackFile")
    /\ (Finished /\ StartsWith(buf, B_PACK) /\ Len(buf) >= 8
          /\ int_from_bytes(SubSeq(buf, 5, 8)) # 2)
          => (pc = "error" /\ res.err = "UnsupportedVersion")

(* C9: pack entries tile the buffer.  When read_git_packed succeeds, the   *)
(* consumed_bytes of each object is the buffer length before its entry     *)
(* minus the length after it, each entry starts at the first byte the      *)
(* entry before it left unused, and the consumed_bytes sum to              *)
(* len(buf) - 12.                                                          *)
C9_EntriesTileBuffer ==
    pc = "done" =>
        /\ Len(hist) = Len(acc)
        /\ \A i \in 1..Len(acc) :
              /\ acc[i].real_size
                    = Len(hist[i]) - (IF i < Len(acc) THEN Len(hist[i + 1]) ELSE 0)
              /\ hist[i] = SubSeq(buf,
                                  PackHeaderLen + SumRealSize(SubSeq(acc, 1, i - 1)) + 1,
                                  Len(buf))
        /\ SumRealSize(acc) = Len(buf) - PackHeaderLen

(* C10: the entry loop terminates.  Each call of read_packed_object_entry  *)
(* on a non-empty remainder fails or returns a strictly shorter remainder, *)
(* so the loop ends in a PackFile with no bytes remaining or in an error   *)
(* after at most len(buf) - 12 iterations.                                 *)
C10_EntryLoopBounded ==
    /\ \A i \in 1..Len(acc) : acc[i].real_size >= 1
    /\ \A i \in 1..(Len(hist) - 1) : Len(hist[i + 1]) < Len(hist[i])
    /\ (pc = "loop" /\ hist # <<>>) => Len(data) < Len(hist[Len(hist)])
    /\ pc = "done" => data = <<>>
    /\ (pc = "done" \/ (pc = "error" /\ hist # <<>>))
          => Len(hist) <= Len(buf) - PackHeaderLen

=============================================================================
